---- MODULE Spec2Model ----
(***************************************************************************)
(* Model of @periodic/obsidian: the HttpError value, the status registry,  *)
(* the factory set and the two Express error-handling middlewares          *)
(* (errorHandler, simpleErrorHandler).                                     *)
(*                                                                         *)
(* One request is in flight at a time (JavaScript runs each middleware     *)
(* invocation to completion); requests are numbered 1..MaxReq.  Every call *)
(* a middleware makes on its collaborators (logger, transform, res.status, *)
(* res.json, next) is recorded, in order, in the variable events.          *)
(*                                                                         *)
(* Further specifications over the same state look at error values on      *)
(* their own (SpecValues, SpecRegistry, SpecAliasing), at one error from   *)
(* construction to response (SpecLifecycle), at several requests in flight *)
(* at once (SpecConcurrent) and at hooks that raise (SpecHooks).           *)
(***************************************************************************)
EXTENDS Integers, Sequences, FiniteSets, TLC

(***************************************************************************)
(* JavaScript values.  A value is a record (t, s, n): its type tag, its    *)
(* string content and its numeric content.                                 *)
(***************************************************************************)
Undefined == [t |-> "undefined", s |-> "", n |-> 0]

Null == [t |-> "null", s |-> "", n |-> 0]

True == [t |-> "boolean", s |-> "", n |-> 1]

False == [t |-> "boolean", s |-> "", n |-> 0]

Str(x) == [t |-> "string", s |-> x, n |-> 0]

Num(k) == [t |-> "number", s |-> "", n |-> k]

Obj(x) == [t |-> "object", s |-> x, n |-> 0]

\* The number NaN.
NaN == [t |-> "number", s |-> "NaN", n |-> 0]

\* A Date, by its ISO time.
DateValue(iso) == [t |-> "date", s |-> iso, n |-> 0]

\* An object given by its own enumerable properties.
Struct(fields) == [t |-> "struct", s |-> "", n |-> 0, f |-> fields]

\* JavaScript truthiness, as used by the || operator.
Truthy(v) ==
    /\ v.t \notin {"undefined", "null"}
    /\ ~(v.t = "string" /\ v.s = "")
    /\ ~(v.t = "number" /\ v.n = 0)
    /\ v # False

(***************************************************************************)
(* Bounds.                                                                 *)
(***************************************************************************)
MaxReq == 2

\* Requests that are in flight at the same time.
MaxConc == 2

(***************************************************************************)
(* Status registry (core/status-codes.ts).                                 *)
(***************************************************************************)
HttpStatusCode ==
    [
     CONTINUE |-> 100, SWITCHING_PROTOCOLS |-> 101, PROCESSING |-> 102,
     EARLY_HINTS |-> 103, OK |-> 200, CREATED |-> 201, ACCEPTED |-> 202,
     NON_AUTHORITATIVE_INFORMATION |-> 203, NO_CONTENT |-> 204,
     RESET_CONTENT |-> 205, PARTIAL_CONTENT |-> 206, MULTI_STATUS |-> 207,
     ALREADY_REPORTED |-> 208, IM_USED |-> 226, MULTIPLE_CHOICES |-> 300,
     MOVED_PERMANENTLY |-> 301, FOUND |-> 302, SEE_OTHER |-> 303,
     NOT_MODIFIED |-> 304, USE_PROXY |-> 305, TEMPORARY_REDIRECT |-> 307,
     PERMANENT_REDIRECT |-> 308, BAD_REQUEST |-> 400, UNAUTHORIZED |-> 401,
     PAYMENT_REQUIRED |-> 402, FORBIDDEN |-> 403, NOT_FOUND |-> 404,
     METHOD_NOT_ALLOWED |-> 405, NOT_ACCEPTABLE |-> 406,
     PROXY_AUTHENTICATION_REQUIRED |-> 407, REQUEST_TIMEOUT |-> 408,
     CONFLICT |-> 409, GONE |-> 410, LENGTH_REQUIRED |-> 411,
     PRECONDITION_FAILED |-> 412, PAYLOAD_TOO_LARGE |-> 413,
     URI_TOO_LONG |-> 414, UNSUPPORTED_MEDIA_TYPE |-> 415,
     RANGE_NOT_SATISFIABLE |-> 416, EXPECTATION_FAILED |-> 417,
     IM_A_TEAPOT |-> 418, MISDIRECTED_REQUEST |-> 421,
     UNPROCESSABLE_ENTITY |-> 422, LOCKED |-> 423, FAILED_DEPENDENCY |-> 424,
     TOO_EARLY |-> 425, UPGRADE_REQUIRED |-> 426,
     PRECONDITION_REQUIRED |-> 428, TOO_MANY_REQUESTS |-> 429,
     REQUEST_HEADER_FIELDS_TOO_LARGE |-> 431,
     UNAVAILABLE_FOR_LEGAL_REASONS |-> 451, INTERNAL_SERVER_ERROR |-> 500,
     NOT_IMPLEMENTED |-> 501, BAD_GATEWAY |-> 502,
     SERVICE_UNAVAILABLE |-> 503, GATEWAY_TIMEOUT |-> 504,
     HTTP_VERSION_NOT_SUPPORTED |-> 505, VARIANT_ALSO_NEGOTIATES |-> 506,
     INSUFFICIENT_STORAGE |-> 507, LOOP_DETECTED |-> 508,
     NOT_EXTENDED |-> 510, NETWORK_AUTHENTICATION_REQUIRED |-> 511
    ]

HttpStatusMessage ==
    100 :> "Continue" @@
    101 :> "Switching Protocols" @@
    102 :> "Processing" @@
    103 :> "Early Hints" @@
    200 :> "OK" @@
    201 :> "Created" @@
    202 :> "Accepted" @@
    203 :> "Non-Authoritative Information" @@
    204 :> "No Content" @@
    205 :> "Reset Content" @@
    206 :> "Partial Content" @@
    207 :> "Multi-Status" @@
    208 :> "Already Reported" @@
    226 :> "IM Used" @@
    300 :> "Multiple Choices" @@
    301 :> "Moved Permanently" @@
    302 :> "Found" @@
    303 :> "See Other" @@
    304 :> "Not Modified" @@
    305 :> "Use Proxy" @@
    307 :> "Temporary Redirect" @@
    308 :> "Permanent Redirect" @@
    400 :> "Bad Request" @@
    401 :> "Unauthorized" @@
    402 :> "Payment Required" @@
    403 :> "Forbidden" @@
    404 :> "Not Found" @@
    405 :> "Method Not Allowed" @@
    406 :> "Not Acceptable" @@
    407 :> "Proxy Authentication Required" @@
    408 :> "Request Timeout" @@
    409 :> "Conflict" @@
    410 :> "Gone" @@
    411 :> "Length Required" @@
    412 :> "Precondition Failed" @@
    413 :> "Payload Too Large" @@
    414 :> "URI Too Long" @@
    415 :> "Unsupported Media Type" @@
    416 :> "Range Not Satisfiable" @@
    417 :> "Expectation Failed" @@
    418 :> "I'm a teapot" @@
    421 :> "Misdirected Request" @@
    422 :> "Unprocessable Entity" @@
    423 :> "Locked" @@
    424 :> "Failed Dependency" @@
    425 :> "Too Early" @@
    426 :> "Upgrade Required" @@
    428 :> "Precondition Required" @@
    429 :> "Too Many Requests" @@
    431 :> "Request Header Fields Too Large" @@
    451 :> "Unavailable For Legal Reasons" @@
    500 :> "Internal Server Error" @@
    501 :> "Not Implemented" @@
    502 :> "Bad Gateway" @@
    503 :> "Service Unavailable" @@
    504 :> "Gateway Timeout" @@
    505 :> "HTTP Version Not Supported" @@
    506 :> "Variant Also Negotiates" @@
    507 :> "Insufficient Storage" @@
    508 :> "Loop Detected" @@
    510 :> "Not Extended" @@
    511 :> "Network Authentication Required"

factories ==
    [
     continueError |-> HttpStatusCode.CONTINUE,
     switchingProtocols |-> HttpStatusCode.SWITCHING_PROTOCOLS,
     processing |-> HttpStatusCode.PROCESSING,
     earlyHints |-> HttpStatusCode.EARLY_HINTS, ok |-> HttpStatusCode.OK,
     created |-> HttpStatusCode.CREATED,
     accepted |-> HttpStatusCode.ACCEPTED,
     nonAuthoritativeInformation |-> HttpStatusCode.NON_AUTHORITATIVE_INFORMATION,
     noContent |-> HttpStatusCode.NO_CONTENT,
     resetContent |-> HttpStatusCode.RESET_CONTENT,
     partialContent |-> HttpStatusCode.PARTIAL_CONTENT,
     multiStatus |-> HttpStatusCode.MULTI_STATUS,
     alreadyReported |-> HttpStatusCode.ALREADY_REPORTED,
     imUsed |-> HttpStatusCode.IM_USED,
     multipleChoices |-> HttpStatusCode.MULTIPLE_CHOICES,
     movedPermanently |-> HttpStatusCode.MOVED_PERMANENTLY,
     found |-> HttpStatusCode.FOUND, seeOther |-> HttpStatusCode.SEE_OTHER,
     notModified |-> HttpStatusCode.NOT_MODIFIED,
     useProxy |-> HttpStatusCode.USE_PROXY,
     temporaryRedirect |-> HttpStatusCode.TEMPORARY_REDIRECT,
     permanentRedirect |-> HttpStatusCode.PERMANENT_REDIRECT,
     badRequest |-> HttpStatusCode.BAD_REQUEST,
     unauthorized |-> HttpStatusCode.UNAUTHORIZED,
     paymentRequired |-> HttpStatusCode.PAYMENT_REQUIRED,
     forbidden |-> HttpStatusCode.FORBIDDEN,
     notFound |-> HttpStatusCode.NOT_FOUND,
     methodNotAllowed |-> HttpStatusCode.METHOD_NOT_ALLOWED,
     notAcceptable |-> HttpStatusCode.NOT_ACCEPTABLE,
     proxyAuthenticationRequired |-> HttpStatusCode.PROXY_AUTHENTICATION_REQUIRED,
     requestTimeout |-> HttpStatusCode.REQUEST_TIMEOUT,
     conflict |-> HttpStatusCode.CONFLICT, gone |-> HttpStatusCode.GONE,
     lengthRequired |-> HttpStatusCode.LENGTH_REQUIRED,
     preconditionFailed |-> HttpStatusCode.PRECONDITION_FAILED,
     payloadTooLarge |-> HttpStatusCode.PAYLOAD_TOO_LARGE,
     uriTooLong |-> HttpStatusCode.URI_TOO_LONG,
     unsupportedMediaType |-> HttpStatusCode.UNSUPPORTED_MEDIA_TYPE,
     rangeNotSatisfiable |-> HttpStatusCode.RANGE_NOT_SATISFIABLE,
     expectationFailed |-> HttpStatusCode.EXPECTATION_FAILED,
     imATeapot |-> HttpStatusCode.IM_A_TEAPOT,
     misdirectedRequest |-> HttpStatusCode.MISDIRECTED_REQUEST,
     unprocessableEntity |-> HttpStatusCode.UNPROCESSABLE_ENTITY,
     locked |-> HttpStatusCode.LOCKED,
     failedDependency |-> HttpStatusCode.FAILED_DEPENDENCY,
     tooEarly |-> HttpStatusCode.TOO_EARLY,
     upgradeRequired |-> HttpStatusCode.UPGRADE_REQUIRED,
     preconditionRequired |-> HttpStatusCode.PRECONDITION_REQUIRED,
     tooManyRequests |-> HttpStatusCode.TOO_MANY_REQUESTS,
     requestHeaderFieldsTooLarge |-> HttpStatusCode.REQUEST_HEADER_FIELDS_TOO_LARGE,
     unavailableForLegalReasons |-> HttpStatusCode.UNAVAILABLE_FOR_LEGAL_REASONS,
     internalServerError |-> HttpStatusCode.INTERNAL_SERVER_ERROR,
     notImplemented |-> HttpStatusCode.NOT_IMPLEMENTED,
     badGateway |-> HttpStatusCode.BAD_GATEWAY,
     serviceUnavailable |-> HttpStatusCode.SERVICE_UNAVAILABLE,
     gatewayTimeout |-> HttpStatusCode.GATEWAY_TIMEOUT,
     httpVersionNotSupported |-> HttpStatusCode.HTTP_VERSION_NOT_SUPPORTED,
     variantAlsoNegotiates |-> HttpStatusCode.VARIANT_ALSO_NEGOTIATES,
     insufficientStorage |-> HttpStatusCode.INSUFFICIENT_STORAGE,
     loopDetected |-> HttpStatusCode.LOOP_DETECTED,
     notExtended |-> HttpStatusCode.NOT_EXTENDED,
     networkAuthenticationRequired |-> HttpStatusCode.NETWORK_AUTHENTICATION_REQUIRED
    ]

\* The documented table of factory names, statuses and reason phrases
\* (Status Code Reference).
StatusTable ==
    "continue" :> [status |-> 100, reason |-> "Continue"] @@
    "switchingProtocols" :> [status |-> 101, reason |-> "Switching Protocols"] @@
    "processing" :> [status |-> 102, reason |-> "Processing"] @@
    "earlyHints" :> [status |-> 103, reason |-> "Early Hints"] @@
    "ok" :> [status |-> 200, reason |-> "OK"] @@
    "created" :> [status |-> 201, reason |-> "Created"] @@
    "accepted" :> [status |-> 202, reason |-> "Accepted"] @@
    "nonAuthoritativeInformation" :> [status |-> 203, reason |-> "Non-Authoritative Information"] @@
    "noContent" :> [status |-> 204, reason |-> "No Content"] @@
    "resetContent" :> [status |-> 205, reason |-> "Reset Content"] @@
    "partialContent" :> [status |-> 206, reason |-> "Partial Content"] @@
    "multiStatus" :> [status |-> 207, reason |-> "Multi-Status"] @@
    "alreadyReported" :> [status |-> 208, reason |-> "Already Reported"] @@
    "imUsed" :> [status |-> 226, reason |-> "IM Used"] @@
    "multipleChoices" :> [status |-> 300, reason |-> "Multiple Choices"] @@
    "movedPermanently" :> [status |-> 301, reason |-> "Moved Permanently"] @@
    "found" :> [status |-> 302, reason |-> "Found"] @@
    "seeOther" :> [status |-> 303, reason |-> "See Other"] @@
    "notModified" :> [status |-> 304, reason |-> "Not Modified"] @@
    "useProxy" :> [status |-> 305, reason |-> "Use Proxy"] @@
    "temporaryRedirect" :> [status |-> 307, reason |-> "Temporary Redirect"] @@
    "permanentRedirect" :> [status |-> 308, reason |-> "Permanent Redirect"] @@
    "badRequest" :> [status |-> 400, reason |-> "Bad Request"] @@
    "unauthorized" :> [status |-> 401, reason |-> "Unauthorized"] @@
    "paymentRequired" :> [status |-> 402, reason |-> "Payment Required"] @@
    "forbidden" :> [status |-> 403, reason |-> "Forbidden"] @@
    "notFound" :> [status |-> 404, reason |-> "Not Found"] @@
    "methodNotAllowed" :> [status |-> 405, reason |-> "Method Not Allowed"] @@
    "notAcceptable" :> [status |-> 406, reason |-> "Not Acceptable"] @@
    "proxyAuthenticationRequired" :> [status |-> 407, reason |-> "Proxy Authentication Required"] @@
    "requestTimeout" :> [status |-> 408, reason |-> "Request Timeout"] @@
    "conflict" :> [status |-> 409, reason |-> "Conflict"] @@
    "gone" :> [status |-> 410, reason |-> "Gone"] @@
    "lengthRequired" :> [status |-> 411, reason |-> "Length Required"] @@
    "preconditionFailed" :> [status |-> 412, reason |-> "Precondition Failed"] @@
    "payloadTooLarge" :> [status |-> 413, reason |-> "Payload Too Large"] @@
    "uriTooLong" :> [status |-> 414, reason |-> "URI Too Long"] @@
    "unsupportedMediaType" :> [status |-> 415, reason |-> "Unsupported Media Type"] @@
    "rangeNotSatisfiable" :> [status |-> 416, reason |-> "Range Not Satisfiable"] @@
    "expectationFailed" :> [status |-> 417, reason |-> "Expectation Failed"] @@
    "imATeapot" :> [status |-> 418, reason |-> "I'm a teapot"] @@
    "misdirectedRequest" :> [status |-> 421, reason |-> "Misdirected Request"] @@
    "unprocessableEntity" :> [status |-> 422, reason |-> "Unprocessable Entity"] @@
    "locked" :> [status |-> 423, reason |-> "Locked"] @@
    "failedDependency" :> [status |-> 424, reason |-> "Failed Dependency"] @@
    "tooEarly" :> [status |-> 425, reason |-> "Too Early"] @@
    "upgradeRequired" :> [status |-> 426, reason |-> "Upgrade Required"] @@
    "preconditionRequired" :> [status |-> 428, reason |-> "Precondition Required"] @@
    "tooManyRequests" :> [status |-> 429, reason |-> "Too Many Requests"] @@
    "requestHeaderFieldsTooLarge" :> [status |-> 431, reason |-> "Request Header Fields Too Large"] @@
    "unavailableForLegalReasons" :> [status |-> 451, reason |-> "Unavailable For Legal Reasons"] @@
    "internalServerError" :> [status |-> 500, reason |-> "Internal Server Error"] @@
    "notImplemented" :> [status |-> 501, reason |-> "Not Implemented"] @@
    "badGateway" :> [status |-> 502, reason |-> "Bad Gateway"] @@
    "serviceUnavailable" :> [status |-> 503, reason |-> "Service Unavailable"] @@
    "gatewayTimeout" :> [status |-> 504, reason |-> "Gateway Timeout"] @@
    "httpVersionNotSupported" :> [status |-> 505, reason |-> "HTTP Version Not Supported"] @@
    "variantAlsoNegotiates" :> [status |-> 506, reason |-> "Variant Also Negotiates"] @@
    "insufficientStorage" :> [status |-> 507, reason |-> "Insufficient Storage"] @@
    "loopDetected" :> [status |-> 508, reason |-> "Loop Detected"] @@
    "notExtended" :> [status |-> 510, reason |-> "Not Extended"] @@
    "networkAuthenticationRequired" :> [status |-> 511, reason |-> "Network Authentication Required"]

\* Variant: unauthorized is bound to the factory of forbidden.
obsidian_Misbound ==
    [n \in DOMAIN StatusTable |->
        IF n = "unauthorized" THEN factories.forbidden
        ELSE IF n = "continue" THEN factories.continueError
        ELSE factories[n]]

obsidian ==
    "continue" :> factories.continueError @@
    "switchingProtocols" :> factories.switchingProtocols @@
    "processing" :> factories.processing @@
    "earlyHints" :> factories.earlyHints @@
    "ok" :> factories.ok @@
    "created" :> factories.created @@
    "accepted" :> factories.accepted @@
    "nonAuthoritativeInformation" :> factories.nonAuthoritativeInformation @@
    "noContent" :> factories.noContent @@
    "resetContent" :> factories.resetContent @@
    "partialContent" :> factories.partialContent @@
    "multiStatus" :> factories.multiStatus @@
    "alreadyReported" :> factories.alreadyReported @@
    "imUsed" :> factories.imUsed @@
    "multipleChoices" :> factories.multipleChoices @@
    "movedPermanently" :> factories.movedPermanently @@
    "found" :> factories.found @@
    "seeOther" :> factories.seeOther @@
    "notModified" :> factories.notModified @@
    "useProxy" :> factories.useProxy @@
    "temporaryRedirect" :> factories.temporaryRedirect @@
    "permanentRedirect" :> factories.permanentRedirect @@
    "badRequest" :> factories.badRequest @@
    "unauthorized" :> factories.unauthorized @@
    "paymentRequired" :> factories.paymentRequired @@
    "forbidden" :> factories.forbidden @@
    "notFound" :> factories.notFound @@
    "methodNotAllowed" :> factories.methodNotAllowed @@
    "notAcceptable" :> factories.notAcceptable @@
    "proxyAuthenticationRequired" :> factories.proxyAuthenticationRequired @@
    "requestTimeout" :> factories.requestTimeout @@
    "conflict" :> factories.conflict @@
    "gone" :> factories.gone @@
    "lengthRequired" :> factories.lengthRequired @@
    "preconditionFailed" :> factories.preconditionFailed @@
    "payloadTooLarge" :> factories.payloadTooLarge @@
    "uriTooLong" :> factories.uriTooLong @@
    "unsupportedMediaType" :> factories.unsupportedMediaType @@
    "rangeNotSatisfiable" :> factories.rangeNotSatisfiable @@
    "expectationFailed" :> factories.expectationFailed @@
    "imATeapot" :> factories.imATeapot @@
    "misdirectedRequest" :> factories.misdirectedRequest @@
    "unprocessableEntity" :> factories.unprocessableEntity @@
    "locked" :> factories.locked @@
    "failedDependency" :> factories.failedDependency @@
    "tooEarly" :> factories.tooEarly @@
    "upgradeRequired" :> factories.upgradeRequired @@
    "preconditionRequired" :> factories.preconditionRequired @@
    "tooManyRequests" :> factories.tooManyRequests @@
    "requestHeaderFieldsTooLarge" :> factories.requestHeaderFieldsTooLarge @@
    "unavailableForLegalReasons" :> factories.unavailableForLegalReasons @@
    "internalServerError" :> factories.internalServerError @@
    "badGateway" :> factories.badGateway @@
    "serviceUnavailable" :> factories.serviceUnavailable @@
    "gatewayTimeout" :> factories.gatewayTimeout @@
    "notImplemented" :> factories.notImplemented @@
    "httpVersionNotSupported" :> factories.httpVersionNotSupported @@
    "variantAlsoNegotiates" :> factories.variantAlsoNegotiates @@
    "insufficientStorage" :> factories.insufficientStorage @@
    "loopDetected" :> factories.loopDetected @@
    "notExtended" :> factories.notExtended @@
    "networkAuthenticationRequired" :> factories.networkAuthenticationRequired

(***************************************************************************)
(* Objects.  An object is its class (the prototype chain it was built      *)
(* with) and its properties.  Reading a property of null raises a          *)
(* TypeError; reading a missing property yields undefined.                 *)
(***************************************************************************)
NoProps == [x \in {} |-> Undefined]

NullValue == [class |-> "Null", prim |-> Null, props |-> NoProps]

CanRead(v) == v.class # "Null"

Get(v, p) == IF p \in DOMAIN v.props THEN v.props[p] ELSE Undefined

\* options?.key
OptGet(options, key) ==
    IF options = Undefined \/ key \notin DOMAIN options
    THEN Undefined
    ELSE options[key]

\* Variant: recognition by shape, any value that carries a status.
InstanceOfHttpError_ByShape(v) == "status" \in DOMAIN v.props

InstanceOfHttpError(v) == v.class = "HttpError"

(***************************************************************************)
(* HttpError (core/http-error.ts).                                         *)
(***************************************************************************)
\* Variant: the constructor substitutes the reason phrase for a missing message.
HttpError_DefaultsMessage(status, message, options) ==
    [class |-> "HttpError",
     prim  |-> Undefined,
     props |-> [status  |-> Num(status),
                message |-> IF Truthy(message) THEN message
                            ELSE IF status \in DOMAIN HttpStatusMessage
                            THEN Str(HttpStatusMessage[status])
                            ELSE Str("Unknown Error"),
                name    |-> Str("HttpError"),
                code    |-> OptGet(options, "code"),
                details |-> OptGet(options, "details"),
                stack   |-> Str("HttpError: at <anonymous>")]]

\* Variant: a status outside the registry is replaced by 500.
HttpError_KnownStatusOnly(status, message, options) ==
    [class |-> "HttpError",
     prim  |-> Undefined,
     props |-> [status  |-> IF status \in DOMAIN HttpStatusMessage
                            THEN Num(status) ELSE Num(500),
                message |-> IF message = Undefined THEN Str("") ELSE message,
                name    |-> Str("HttpError"),
                code    |-> OptGet(options, "code"),
                details |-> OptGet(options, "details"),
                stack   |-> Str("HttpError: at <anonymous>")]]

HttpError(status, message, options) ==
    [class |-> "HttpError",
     prim  |-> Undefined,
     props |-> [status  |-> Num(status),
                message |-> IF message = Undefined THEN Str("") ELSE message,
                name    |-> Str("HttpError"),
                code    |-> OptGet(options, "code"),
                details |-> OptGet(options, "details"),
                stack   |-> Str("HttpError: at <anonymous>")]]

\* Variant: code and details are included by truthiness.
toJSON_Truthiness(e) ==
    LET json     == ("status" :> Get(e, "status")) @@ ("message" :> Get(e, "message"))
        withCode == IF Truthy(Get(e, "code"))
                    THEN json @@ ("code" :> Get(e, "code"))
                    ELSE json
    IN  IF Truthy(Get(e, "details"))
        THEN withCode @@ ("details" :> Get(e, "details"))
        ELSE withCode

\* Variant: the record also carries the error's name.
toJSON_WithName(e) ==
    LET json     == ("status" :> Get(e, "status")) @@ ("message" :> Get(e, "message"))
                        @@ ("name" :> Get(e, "name"))
        withCode == IF Get(e, "code") # Undefined
                    THEN json @@ ("code" :> Get(e, "code"))
                    ELSE json
    IN  IF Get(e, "details") # Undefined
        THEN withCode @@ ("details" :> Get(e, "details"))
        ELSE withCode

\* toJSON without the !== undefined checks.
toJSON_UndefinedKeys(e) ==
    ("status" :> Get(e, "status")) @@ ("message" :> Get(e, "message"))
        @@ ("code" :> Get(e, "code")) @@ ("details" :> Get(e, "details"))

toJSON(e) ==
    LET json     == ("status" :> Get(e, "status")) @@ ("message" :> Get(e, "message"))
        withCode == IF Get(e, "code") # Undefined
                    THEN json @@ ("code" :> Get(e, "code"))
                    ELSE json
    IN  IF Get(e, "details") # Undefined
        THEN withCode @@ ("details" :> Get(e, "details"))
        ELSE withCode

\* getDefaultMessage without the || 'Unknown Error' fallback.
getDefaultMessage_NoFallback(status) ==
    IF status \in DOMAIN HttpStatusMessage
    THEN Str(HttpStatusMessage[status])
    ELSE Undefined

getDefaultMessage(status) ==
    IF status \in DOMAIN HttpStatusMessage /\ Truthy(Str(HttpStatusMessage[status]))
    THEN Str(HttpStatusMessage[status])
    ELSE Str("Unknown Error")

(***************************************************************************)
(* Factories (core/factories.ts).                                          *)
(***************************************************************************)
\* Variant: only a missing message is replaced (message ?? default).
createFactory_NullishOnly(status, message, options) ==
    LET errorMessage == IF message \notin {Undefined, Null}
                        THEN message
                        ELSE getDefaultMessage(status)
    IN  HttpError(status, errorMessage, options)

\* Variant: the options are not passed on.
createFactory_DropsOptions(status, message, options) ==
    LET errorMessage == IF Truthy(message) THEN message ELSE getDefaultMessage(status)
    IN  HttpError(status, errorMessage, Undefined)

createFactory(status, message, options) ==
    LET errorMessage == IF Truthy(message) THEN message ELSE getDefaultMessage(status)
    IN  HttpError(status, errorMessage, options)

(***************************************************************************)
(* Express adapter (adapters/express.ts).                                  *)
(***************************************************************************)
Fn(name) == [t |-> "function", s |-> name, n |-> 0]

\* The calls a middleware makes on its collaborators.
NoValue == [class |-> "none", prim |-> Undefined, props |-> NoProps]

NoBody == [x \in {} |-> Undefined]

EvLogger(err, req) ==
    [op |-> "logger", val |-> err, req |-> req, code |-> 0, body |-> NoBody]

EvTransform(err) ==
    [op |-> "transform", val |-> err, req |-> 0, code |-> 0, body |-> NoBody]

EvStatus(code) ==
    [op |-> "res.status", val |-> NoValue, req |-> 0, code |-> code, body |-> NoBody]

EvJson(body) ==
    [op |-> "res.json", val |-> NoValue, req |-> 0, code |-> 0, body |-> body]

EvNext(err) ==
    [op |-> "next", val |-> err, req |-> 0, code |-> 0, body |-> NoBody]

\* A logger or transform hook that raises when it is called.
Raises(fn) == fn = Fn("raises")

\* The transform hooks an application may configure.
ApplyTransform(fn, e) ==
    IF fn.s = "stamp"
    THEN toJSON(e) @@ ("timestamp" :> Str("2026-01-01T00:00:00.000Z"))
    ELSE ("error" :> Get(e, "message")) @@ ("statusCode" :> Get(e, "status"))

\* Variant: stack traces are on only when NODE_ENV is 'development'.
errorHandler_DevelopmentOnly(options, env) ==
    LET given == OptGet(options, "includeStack")
    IN  [kind         |-> "errorHandler",
         includeStack |-> IF given = Undefined
                          THEN (IF env = Str("development") THEN True ELSE False)
                          ELSE given,
         logger       |-> OptGet(options, "logger"),
         transform    |-> OptGet(options, "transform")]

\* errorHandler(options), called while process.env.NODE_ENV is env.
errorHandler(options, env) ==
    LET given == OptGet(options, "includeStack")
    IN  [kind         |-> "errorHandler",
         includeStack |-> IF given = Undefined
                          THEN (IF env # Str("production") THEN True ELSE False)
                          ELSE given,
         logger       |-> OptGet(options, "logger"),
         transform    |-> OptGet(options, "transform")]

\* if (logger) logger(err, req)
logError(h, err, req) ==
    IF Truthy(h.logger) THEN <<EvLogger(err, req)>> ELSE <<>>

\* Variant: the body is built by hand from status and message only.
handleHttpError_BareBody(h, err) ==
    LET called   == IF Truthy(h.transform) THEN <<EvTransform(err)>> ELSE <<>>
        response == IF Truthy(h.transform)
                    THEN ApplyTransform(h.transform, err)
                    ELSE [status |-> Get(err, "status"), message |-> Get(err, "message")]
    IN  [events  |-> called \o <<EvStatus(Get(err, "status").n), EvJson(response)>>,
         outcome |-> "returned"]

\* Variant: transform is never consulted.
handleHttpError_IgnoresTransform(h, err) ==
    [events  |-> <<EvStatus(Get(err, "status").n), EvJson(toJSON(err))>>,
     outcome |-> "returned"]

\* Variant: includeStack also adds the stack to HttpError responses.
handleHttpError_AddsStack(h, err) ==
    LET called   == IF Truthy(h.transform) THEN <<EvTransform(err)>> ELSE <<>>
        response == IF Truthy(h.transform)
                    THEN ApplyTransform(h.transform, err)
                    ELSE toJSON(err)
        written  == IF Truthy(h.includeStack)
                    THEN response @@ ("stack" :> Get(err, "stack"))
                    ELSE response
    IN  [events  |-> called \o <<EvStatus(Get(err, "status").n), EvJson(written)>>,
         outcome |-> "returned"]

\* Variant: res.status(err.status) is called before the body is computed.
handleHttpError_StatusFirst(h, err) ==
    LET called   == IF Truthy(h.transform) THEN <<EvTransform(err)>> ELSE <<>>
        response == IF Truthy(h.transform)
                    THEN ApplyTransform(h.transform, err)
                    ELSE toJSON(err)
    IN  IF Truthy(h.transform) /\ Raises(h.transform)
        THEN [events  |-> <<EvStatus(Get(err, "status").n), EvTransform(err)>>,
              outcome |-> "threw"]
        ELSE [events  |-> <<EvStatus(Get(err, "status").n)>> \o called
                              \o <<EvJson(response)>>,
              outcome |-> "returned"]

\* The branch for HttpError instances.  The body is computed first: a
\* transform that raises ends the invocation before res.status is called.
handleHttpError(h, err) ==
    LET called   == IF Truthy(h.transform) THEN <<EvTransform(err)>> ELSE <<>>
        response == IF Truthy(h.transform)
                    THEN ApplyTransform(h.transform, err)
                    ELSE toJSON(err)
    IN  IF Truthy(h.transform) /\ Raises(h.transform)
        THEN [events |-> <<EvTransform(err)>>, outcome |-> "threw"]
        ELSE [events  |-> called \o <<EvStatus(Get(err, "status").n), EvJson(response)>>,
              outcome |-> "returned"]

\* Variant: the hidden answer is an {error} envelope.
handleUnknownHidden_ErrorKey ==
    [events  |-> <<EvStatus(500),
                   EvJson([error |-> Str("Internal Server Error")])>>,
     outcome |-> "returned"]

\* The branch for unknown errors when includeStack is off.
handleUnknownHidden ==
    [events  |-> <<EvStatus(500),
                   EvJson([status  |-> Num(500),
                           message |-> Str("Internal Server Error")])>>,
     outcome |-> "returned"]

\* Variant: the detailed answer leaves the stack out.
handleUnknownDetailed_NoStack(err) ==
    IF CanRead(err)
    THEN [events  |-> <<EvStatus(500),
                        EvJson([status  |-> Num(500),
                                message |-> Get(err, "message")])>>,
          outcome |-> "returned"]
    ELSE [events |-> <<EvStatus(500)>>, outcome |-> "threw"]

\* The branch for unknown errors when includeStack is on.  res.status(500)
\* is called before the argument of json is evaluated; reading err.message
\* of null raises a TypeError.
handleUnknownDetailed(err) ==
    IF CanRead(err)
    THEN [events  |-> <<EvStatus(500),
                        EvJson([status  |-> Num(500),
                                message |-> Get(err, "message"),
                                stack   |-> Get(err, "stack")])>>,
          outcome |-> "returned"]
    ELSE [events |-> <<EvStatus(500)>>, outcome |-> "threw"]

\* Variant: the includeStack test is inverted.
errorHandlerMiddleware_InvertedStack(h, err, req) ==
    LET branch == IF InstanceOfHttpError(err) THEN handleHttpError(h, err)
                  ELSE IF Truthy(h.includeStack) THEN handleUnknownHidden
                  ELSE handleUnknownDetailed(err)
    IN  [events  |-> logError(h, err, req) \o branch.events,
         outcome |-> branch.outcome]

\* Variant: the logger is called after the response was written.
errorHandlerMiddleware_LogsLast(h, err, req) ==
    LET branch == IF InstanceOfHttpError(err) THEN handleHttpError(h, err)
                  ELSE IF ~Truthy(h.includeStack) THEN handleUnknownHidden
                  ELSE handleUnknownDetailed(err)
    IN  [events  |-> branch.events \o logError(h, err, req),
         outcome |-> branch.outcome]

\* The middleware errorHandler returns, applied to (err, req, res, next).  A
\* logger that raises ends the invocation at once.
errorHandlerMiddleware(h, err, req) ==
    LET branch == IF InstanceOfHttpError(err) THEN handleHttpError(h, err)
                  ELSE IF ~Truthy(h.includeStack) THEN handleUnknownHidden
                  ELSE handleUnknownDetailed(err)
    IN  IF Truthy(h.logger) /\ Raises(h.logger)
        THEN [events |-> logError(h, err, req), outcome |-> "threw"]
        ELSE [events  |-> logError(h, err, req) \o branch.events,
              outcome |-> branch.outcome]

\* Variant: unknown errors are answered with 500 instead of being forwarded.
simpleErrorHandlerMiddleware_Swallows(err, req) ==
    IF InstanceOfHttpError(err)
    THEN [events  |-> <<EvStatus(Get(err, "status").n), EvJson(toJSON(err))>>,
          outcome |-> "returned"]
    ELSE [events  |-> <<EvStatus(500),
                        EvJson([status  |-> Num(500),
                                message |-> Str("Internal Server Error")])>>,
          outcome |-> "returned"]

\* Variant: the return after writing the response is missing.
simpleErrorHandlerMiddleware_FallsThrough(err, req) ==
    IF InstanceOfHttpError(err)
    THEN [events  |-> <<EvStatus(Get(err, "status").n), EvJson(toJSON(err)),
                        EvNext(err)>>,
          outcome |-> "returned"]
    ELSE [events |-> <<EvNext(err)>>, outcome |-> "returned"]

\* The middleware simpleErrorHandler returns, applied to (err, req, res, next).
simpleErrorHandlerMiddleware(err, req) ==
    IF InstanceOfHttpError(err)
    THEN [events  |-> <<EvStatus(Get(err, "status").n), EvJson(toJSON(err))>>,
          outcome |-> "returned"]
    ELSE [events |-> <<EvNext(err)>>, outcome |-> "returned"]

\* What res.json(body) sends: JSON.stringify leaves out the keys whose value
\* is undefined or a function.
JSONStringify(body) ==
    [k \in {x \in DOMAIN body : body[x].t \notin {"undefined", "function"}} |-> body[k]]

\* JSON.stringify(error): an object with a toJSON method is serialized as the
\* record that method returns.
JSONStringifyError(e) ==
    IF InstanceOfHttpError(e) THEN JSONStringify(toJSON(e)) ELSE JSONStringify(e.props)

(***************************************************************************)
(* JSON texts.  A text is the tree (j, s, n, m) of the JSON grammar: the   *)
(* kind of the value, its string content, its numeric content and, for an  *)
(* object, its members.                                                    *)
(***************************************************************************)
JText(j, s, n, m) == [j |-> j, s |-> s, n |-> n, m |-> m]

\* The properties JSON.stringify writes: those whose value is not undefined
\* and not a function.
Serialized(fields) ==
    {k \in DOMAIN fields : fields[k].t \notin {"undefined", "function"}}

\* JSON.stringify of a value inside a record.  NaN becomes null, a Date its
\* ISO string.
RECURSIVE JSONStringifyValue(_)
JSONStringifyValue(v) ==
    CASE v.t = "string"  -> JText("string", v.s, 0, NoProps)
      [] v.t = "number"  -> IF v.s = ""
                            THEN JText("number", "", v.n, NoProps)
                            ELSE JText("null", "", 0, NoProps)
      [] v.t = "boolean" -> JText(IF v = True THEN "true" ELSE "false", "", 0, NoProps)
      [] v.t = "null"    -> JText("null", "", 0, NoProps)
      [] v.t = "date"    -> JText("string", v.s, 0, NoProps)
      [] v.t = "object"  -> JText("object", v.s, 0, NoProps)
      [] v.t = "struct"  -> JText("object", "", 0,
                                  [k \in Serialized(v.f) |-> JSONStringifyValue(v.f[k])])

\* JSON.stringify(record)
JSONStringifyRecord(body) ==
    JText("object", "", 0, [k \in Serialized(body) |-> JSONStringifyValue(body[k])])

RECURSIVE JSONParseValue(_)
JSONParseValue(x) ==
    CASE x.j = "string" -> Str(x.s)
      [] x.j = "number" -> Num(x.n)
      [] x.j = "true"   -> True
      [] x.j = "false"  -> False
      [] x.j = "null"   -> Null
      [] x.j = "object" -> IF x.s # ""
                           THEN Obj(x.s)
                           ELSE Struct([k \in DOMAIN x.m |-> JSONParseValue(x.m[k])])

\* JSON.parse(text) of the text of a record
JSONParse(x) == [k \in DOMAIN x.m |-> JSONParseValue(x.m[k])]

(***************************************************************************)
(* Inputs.                                                                 *)
(***************************************************************************)
NodeEnvs == {Undefined, Str("production"), Str("development")}

OptionKeys == {"includeStack", "logger", "transform"}

OptionValues(key) ==
    CASE key = "includeStack" -> {Undefined, True, False}
      [] key = "logger"       -> {Fn("log")}
      [] key = "transform"    -> {Fn("envelope")}

\* errorHandler() and errorHandler({...}) with any subset of the options.
HandlerOptions ==
    {Undefined} \cup
    UNION {{o \in [K -> UNION {OptionValues(k) : k \in OptionKeys}] :
                \A k \in K : o[k] \in OptionValues(k)} : K \in SUBSET OptionKeys}

Messages == {Undefined, Str(""), Str("User not found")}

ErrorOptions ==
    {Undefined,
     [code |-> Str("USER_NOT_FOUND")],
     [code |-> Str("USER_NOT_FOUND"), details |-> Obj("{userId:'123'}")]}

FactoryNames == {"notFound", "internalServerError"}

DirectStatuses == {500, 999}

DirectMessages == {Str("Database connection failed")}

PlainError ==
    [class |-> "Error",
     prim  |-> Undefined,
     props |-> [message |-> Str("connect ECONNREFUSED"),
                name    |-> Str("Error"),
                stack   |-> Str("Error: connect ECONNREFUSED at db.js:1")]]

\* An Error of another library that carries its own status, code and details.
ForeignError ==
    [class |-> "Error",
     prim  |-> Undefined,
     props |-> [message |-> Str("secret table missing"),
                name    |-> Str("Error"),
                stack   |-> Str("Error: secret table missing at orm.js:7"),
                status  |-> Num(403),
                code    |-> Str("E_INTERNAL"),
                details |-> Obj("{table:'secret'}")]]

\* A plain object shaped like an HttpError.
LookalikeObject ==
    [class |-> "Object",
     prim  |-> Undefined,
     props |-> [status  |-> Num(404),
                message |-> Str("User not found"),
                code    |-> Str("USER_NOT_FOUND"),
                details |-> Obj("{userId:'123'}")]]

ThrownString == [class |-> "String", prim |-> Str("boom"), props |-> NoProps]

OtherValues == {PlainError, ForeignError, LookalikeObject, ThrownString, NullValue}

(***************************************************************************)
(* State.                                                                  *)
(***************************************************************************)
VARIABLES
    nodeEnv,   \* process.env.NODE_ENV
    handler,   \* the middleware last returned by errorHandler(options)
    created,   \* the options and NODE_ENV of that errorHandler call
    reqId,     \* the request in flight (0 before the first one)
    raised,    \* the value raised while handling request reqId
    usedBy,    \* the middleware that was invoked with it
    events,    \* the calls that invocation made, in order
    outcome,   \* "idle", "pending", "returned" or "threw"
    call,      \* the last factory or constructor call and its arguments
    result,    \* the HttpError that call returned
    json,      \* what result.toJSON() last returned
    text,      \* what JSON.stringify(result) last returned
    parsed,    \* what JSON.parse(JSON.stringify(json)) last returned
    lookup,    \* the last HttpError.getDefaultMessage call and its answer
    repeat,    \* the records the last two result.toJSON() calls returned
    inflight,  \* per concurrent request, the value raised while handling it
    responses, \* per concurrent request, the calls made on its response object
    servedBy   \* per concurrent request, the middleware invoked for it

handlerVars == <<nodeEnv, handler, created, reqId, raised, usedBy, events, outcome>>

valueVars == <<call, result, json, text>>

\* State of the later specifications: round trips, registry lookups, repeated
\* toJSON calls and concurrent requests.
restVars == <<parsed, lookup, repeat, inflight, responses, servedBy>>

vars == <<nodeEnv, handler, created, reqId, raised, usedBy, events, outcome,
          call, result, json, text,
          parsed, lookup, repeat, inflight, responses, servedBy>>

NoCall ==
    [op |-> "none", name |-> "", status |-> 0, message |-> Undefined, options |-> Undefined]

NoHandler == [kind |-> "none"]

SimpleHandler == [kind |-> "simpleErrorHandler"]

NotCreated == [options |-> Undefined, env |-> Undefined, called |-> FALSE]

NoLookup == [status |-> 0, phrase |-> Undefined]

\* first and second are the records of the last two toJSON calls, as they were
\* when returned; dirty: the caller wrote into the shared details object since
\* the last call; touched: it did so between those two calls; edited and
\* between: the same for the top-level keys of the record returned last.
NoRepeat ==
    [first |-> NoBody, second |-> NoBody, dirty |-> FALSE, touched |-> FALSE,
     edited |-> FALSE, between |-> FALSE]

Requests == 1..MaxConc

Init ==
    /\ nodeEnv = Undefined
    /\ handler = NoHandler
    /\ created = NotCreated
    /\ reqId = 0
    /\ raised = NoValue
    /\ usedBy = NoHandler
    /\ events = <<>>
    /\ outcome = "idle"
    /\ call = NoCall
    /\ result = NoValue
    /\ json = NoBody
    /\ text = NoBody
    /\ parsed = NoBody
    /\ lookup = NoLookup
    /\ repeat = NoRepeat
    /\ inflight = [r \in Requests |-> NoValue]
    /\ responses = [r \in Requests |-> <<>>]
    /\ servedBy = [r \in Requests |-> NoHandler]

\* The environment sets or clears NODE_ENV.
SetNodeEnv(env) ==
    /\ env # nodeEnv
    /\ nodeEnv' = env
    /\ UNCHANGED <<handler, created, reqId, raised, usedBy, events, outcome>>
    /\ UNCHANGED valueVars
    /\ UNCHANGED restVars

\* The application calls errorHandler(options).
CreateErrorHandler(options) ==
    /\ handler' = errorHandler(options, nodeEnv)
    /\ created' = [options |-> options, env |-> nodeEnv, called |-> TRUE]
    /\ UNCHANGED <<nodeEnv, reqId, raised, usedBy, events, outcome>>
    /\ UNCHANGED valueVars
    /\ UNCHANGED restVars

\* Request handling code raises value v for a new request.
Raise(v) ==
    /\ outcome # "pending"
    /\ reqId < MaxReq
    /\ reqId' = reqId + 1
    /\ raised' = v
    /\ usedBy' = NoHandler
    /\ events' = <<>>
    /\ outcome' = "pending"
    /\ UNCHANGED <<nodeEnv, handler, created>>
    /\ UNCHANGED valueVars
    /\ UNCHANGED restVars

RaiseFromFactory(name, message, options) ==
    Raise(createFactory(obsidian[name], message, options))

RaiseConstructed(status, message, options) ==
    Raise(HttpError(status, message, options))

RaiseOther(v) == Raise(v)

\* Variant: the middleware strips the details of the error it was given.
InvokeErrorHandler_StripsDetails ==
    /\ outcome = "pending"
    /\ handler # NoHandler
    /\ LET run == errorHandlerMiddleware(handler, raised, reqId)
       IN  /\ events' = run.events
           /\ outcome' = run.outcome
    /\ usedBy' = handler
    /\ raised' = IF "details" \in DOMAIN raised.props
                 THEN [raised EXCEPT !.props.details = Undefined]
                 ELSE raised
    /\ UNCHANGED <<nodeEnv, handler, created, reqId>>
    /\ UNCHANGED valueVars
    /\ UNCHANGED restVars

\* Variant: the includeStack default is read from NODE_ENV at each request.
InvokeErrorHandler_ResolvesPerRequest ==
    /\ outcome = "pending"
    /\ handler # NoHandler
    /\ LET run == errorHandlerMiddleware(errorHandler(created.options, nodeEnv),
                                         raised, reqId)
       IN  /\ events' = run.events
           /\ outcome' = run.outcome
    /\ usedBy' = handler
    /\ UNCHANGED <<nodeEnv, handler, created, reqId, raised>>
    /\ UNCHANGED valueVars
    /\ UNCHANGED restVars

\* The host invokes the errorHandler middleware with the raised value.
InvokeErrorHandler ==
    /\ outcome = "pending"
    /\ handler # NoHandler
    /\ LET run == errorHandlerMiddleware(handler, raised, reqId)
       IN  /\ events' = run.events
           /\ outcome' = run.outcome
    /\ usedBy' = handler
    /\ UNCHANGED <<nodeEnv, handler, created, reqId, raised>>
    /\ UNCHANGED valueVars
    /\ UNCHANGED restVars

\* The host invokes the simpleErrorHandler middleware with the raised value.
InvokeSimpleErrorHandler ==
    /\ outcome = "pending"
    /\ LET run == simpleErrorHandlerMiddleware(raised, reqId)
       IN  /\ events' = run.events
           /\ outcome' = run.outcome
    /\ usedBy' = SimpleHandler
    /\ UNCHANGED <<nodeEnv, handler, created, reqId, raised>>
    /\ UNCHANGED valueVars
    /\ UNCHANGED restVars

Next ==
    \/ \E env \in NodeEnvs : SetNodeEnv(env)
    \/ \E options \in HandlerOptions : CreateErrorHandler(options)
    \/ \E name \in FactoryNames, message \in Messages, options \in ErrorOptions :
           RaiseFromFactory(name, message, options)
    \/ \E status \in DirectStatuses, message \in DirectMessages, options \in ErrorOptions :
           RaiseConstructed(status, message, options)
    \/ \E v \in OtherValues : RaiseOther(v)
    \/ InvokeErrorHandler
    \/ InvokeSimpleErrorHandler

Spec == Init /\ [][Next]_vars

(***************************************************************************)
(* Error values on their own: factory and constructor calls, toJSON and    *)
(* JSON.stringify, for every factory of the obsidian namespace.            *)
(***************************************************************************)
ValueMessages == {Undefined, Str(""), Str("User not found")}

\* No options, {}, and options with empty, falsy or undefined fields.
ValueOptions ==
    {Undefined,
     NoProps,
     [code |-> Str("")],
     [code |-> Str("USER_NOT_FOUND"), details |-> Obj("{userId:'123'}")],
     [details |-> Obj("{}")],
     [details |-> Null],
     [details |-> Num(0)],
     [details |-> False],
     [code |-> Undefined, details |-> Undefined],
     [details |-> Struct([userId |-> Str("123"), attempts |-> Num(3)])],
     [details |-> Struct([userId |-> Str("123"), token |-> Undefined])],
     [details |-> NaN],
     [details |-> DateValue("2026-01-01T00:00:00.000Z")],
     [details |-> Fn("retry")]}

ValueStatuses == {100, 404, 999}

\* obsidian.<name>(message, options)
CallFactory(name, message, options) ==
    /\ call = NoCall
    /\ call' = [op |-> "factory", name |-> name, status |-> obsidian[name],
                message |-> message, options |-> options]
    /\ result' = createFactory(obsidian[name], message, options)
    /\ json' = NoBody
    /\ text' = NoBody
    /\ UNCHANGED handlerVars
    /\ UNCHANGED restVars

\* new HttpError(status, message, options)
NewHttpError(status, message, options) ==
    /\ call = NoCall
    /\ call' = [op |-> "constructor", name |-> "", status |-> status,
                message |-> message, options |-> options]
    /\ result' = HttpError(status, message, options)
    /\ json' = NoBody
    /\ text' = NoBody
    /\ UNCHANGED handlerVars
    /\ UNCHANGED restVars

\* Variant: toJSON keeps the record it built and returns that same object
\* again.
CallToJSON_CachedRecord ==
    /\ result # NoValue
    /\ json' = IF json # NoBody THEN json ELSE toJSON(result)
    /\ repeat' = [first |-> repeat.second,
                  second |-> IF json # NoBody THEN json ELSE toJSON(result),
                  dirty |-> FALSE, touched |-> repeat.dirty,
                  edited |-> FALSE, between |-> repeat.edited]
    /\ UNCHANGED <<call, result, text>>
    /\ UNCHANGED handlerVars
    /\ UNCHANGED <<parsed, lookup, inflight, responses, servedBy>>

\* result.toJSON()
CallToJSON ==
    /\ result # NoValue
    /\ json' = toJSON(result)
    /\ repeat' = [first |-> repeat.second, second |-> toJSON(result),
                  dirty |-> FALSE, touched |-> repeat.dirty,
                  edited |-> FALSE, between |-> repeat.edited]
    /\ UNCHANGED <<call, result, text>>
    /\ UNCHANGED handlerVars
    /\ UNCHANGED <<parsed, lookup, inflight, responses, servedBy>>

\* JSON.stringify(result)
CallStringify ==
    /\ result # NoValue
    /\ text' = JSONStringifyError(result)
    /\ UNCHANGED <<call, result, json>>
    /\ UNCHANGED handlerVars
    /\ UNCHANGED restVars

\* JSON.parse(JSON.stringify(json)) of the record toJSON returned
CallRoundTrip ==
    /\ json # NoBody
    /\ parsed' = JSONParse(JSONStringifyRecord(json))
    /\ UNCHANGED valueVars
    /\ UNCHANGED handlerVars
    /\ UNCHANGED <<lookup, repeat, inflight, responses, servedBy>>

\* The error is dropped; the next one can be built.
Discard ==
    /\ call # NoCall
    /\ call' = NoCall
    /\ result' = NoValue
    /\ json' = NoBody
    /\ text' = NoBody
    /\ parsed' = NoBody
    /\ repeat' = NoRepeat
    /\ UNCHANGED handlerVars
    /\ UNCHANGED <<lookup, inflight, responses, servedBy>>

NextValues ==
    \/ \E name \in DOMAIN obsidian, message \in ValueMessages, options \in ValueOptions :
           CallFactory(name, message, options)
    \/ \E status \in ValueStatuses, message \in ValueMessages, options \in ValueOptions :
           NewHttpError(status, message, options)
    \/ CallToJSON
    \/ CallStringify
    \/ CallRoundTrip
    \/ Discard

SpecValues == Init /\ [][NextValues]_vars

(***************************************************************************)
(* The registry on its own: HttpError.getDefaultMessage for statuses in    *)
(* and around the table.                                                   *)
(***************************************************************************)
LookupStatuses ==
    DOMAIN HttpStatusMessage \cup {0, 600, 999}
        \cup (95..105) \cup (195..230) \cup (295..310) \cup (395..455) \cup (495..515)

\* HttpError.getDefaultMessage(status)
CallGetDefaultMessage(status) ==
    /\ lookup' = [status |-> status, phrase |-> getDefaultMessage(status)]
    /\ UNCHANGED handlerVars
    /\ UNCHANGED valueVars
    /\ UNCHANGED <<parsed, repeat, inflight, responses, servedBy>>

NextRegistry ==
    \E status \in LookupStatuses : CallGetDefaultMessage(status)

SpecRegistry == Init /\ [][NextRegistry]_vars

(***************************************************************************)
(* The life of one error: it is built by a factory or the constructor,     *)
(* read with toJSON, thrown, caught by the host and given to a middleware, *)
(* next to values that are not HttpErrors.                                 *)
(***************************************************************************)
LifeFactories == {"notFound"}

LifeStatuses == {404, 999}

LifeErrorOptions ==
    {Undefined,
     [code |-> Str("USER_NOT_FOUND"), details |-> Obj("{userId:'123'}")]}

LifeHandlerOptions ==
    {Undefined,
     [includeStack |-> True],
     [includeStack |-> False, logger |-> Fn("log"), transform |-> Fn("envelope")]}

\* throw result, caught by the host
RaiseResult ==
    /\ result # NoValue
    /\ Raise(result)

NextLifecycle ==
    \/ \E name \in LifeFactories, message \in ValueMessages, options \in LifeErrorOptions :
           CallFactory(name, message, options)
    \/ \E status \in LifeStatuses, message \in ValueMessages, options \in LifeErrorOptions :
           NewHttpError(status, message, options)
    \/ CallToJSON
    \/ CallGetDefaultMessage(999)
    \/ \E options \in LifeHandlerOptions : CreateErrorHandler(options)
    \/ RaiseResult
    \/ \E v \in OtherValues : RaiseOther(v)
    \/ InvokeErrorHandler
    \/ InvokeSimpleErrorHandler

SpecLifecycle == Init /\ [][NextLifecycle]_vars

(***************************************************************************)
(* The caller writes into a record toJSON returned.  toJSON builds a new   *)
(* record on every call and stores this.details in it without cloning:     *)
(* the details object of the record is the details object of the error.    *)
(***************************************************************************)
AliasMessages == {Str("User not found")}

AliasOptions ==
    {Undefined,
     [code |-> Str("USER_NOT_FOUND"), details |-> Struct([userId |-> Str("123")])],
     [details |-> Struct(NoProps)]}

\* json[key] = 'tampered' by the caller
MutateReturnedKey(key) ==
    /\ json # NoBody
    /\ key \in DOMAIN json
    /\ json[key] # Str("tampered")
    /\ json' = [json EXCEPT ![key] = Str("tampered")]
    /\ repeat' = [repeat EXCEPT !.edited = TRUE]
    /\ UNCHANGED <<call, result, text>>
    /\ UNCHANGED handlerVars
    /\ UNCHANGED <<parsed, lookup, inflight, responses, servedBy>>

\* json.details.tampered = true by the caller: json.details is the object
\* result.details.
MutateReturnedDetails ==
    /\ json # NoBody
    /\ "details" \in DOMAIN json
    /\ json["details"] = result.props.details
    /\ json["details"].t = "struct"
    /\ "tampered" \notin DOMAIN json["details"].f
    /\ LET old     == json["details"].f
           written == Struct([k \in DOMAIN old \cup {"tampered"} |->
                                 IF k = "tampered" THEN True ELSE old[k]])
       IN  /\ json' = [json EXCEPT !["details"] = written]
           /\ result' = [result EXCEPT !.props.details = written]
    /\ repeat' = [repeat EXCEPT !.dirty = TRUE]
    /\ UNCHANGED <<call, text>>
    /\ UNCHANGED handlerVars
    /\ UNCHANGED <<parsed, lookup, inflight, responses, servedBy>>

NextAliasing ==
    \/ \E message \in AliasMessages, options \in AliasOptions :
           CallFactory("notFound", message, options)
    \/ \E message \in AliasMessages, options \in AliasOptions :
           NewHttpError(999, message, options)
    \/ CallToJSON
    \/ \E key \in {"status", "message", "code", "details"} : MutateReturnedKey(key)
    \/ MutateReturnedDetails
    \/ Discard

SpecAliasing == Init /\ [][NextAliasing]_vars

(***************************************************************************)
(* Several requests in flight at once.  A middleware is synchronous, so    *)
(* each invocation runs to completion; the invocations for the requests    *)
(* in flight happen in any order, through one middleware or several.       *)
(* responses[r] holds the calls the invocation for request r made on the   *)
(* req, res and next it was given.                                         *)
(***************************************************************************)
ConcMessages == {Str("User not found")}

ConcErrorOptions ==
    {[code |-> Str("USER_NOT_FOUND"), details |-> Obj("{userId:'123'}")]}

ConcOtherValues == {PlainError, NullValue}

ConcHandlerOptions ==
    {[includeStack |-> True],
     [includeStack |-> False, logger |-> Fn("log")],
     [transform |-> Fn("envelope")]}

\* Request handling code raises value v while handling request r.
RaiseFor(r, v) ==
    /\ inflight[r] = NoValue
    /\ inflight' = [inflight EXCEPT ![r] = v]
    /\ UNCHANGED <<responses, servedBy>>
    /\ UNCHANGED handlerVars
    /\ UNCHANGED valueVars
    /\ UNCHANGED <<parsed, lookup, repeat>>

RaiseFromFactoryFor(r, name, message, options) ==
    RaiseFor(r, createFactory(obsidian[name], message, options))

RaiseOtherFor(r, v) == RaiseFor(r, v)

\* Variant: the middleware answers on the response object of request 1.
ServeErrorHandler_FirstResponse(r, options) ==
    /\ inflight[r] # NoValue
    /\ servedBy[r] = NoHandler
    /\ LET h   == errorHandler(options, nodeEnv)
           run == errorHandlerMiddleware(h, inflight[r], r)
       IN  /\ responses' = [responses EXCEPT ![1] = run.events]
           /\ servedBy' = [servedBy EXCEPT ![r] = h]
    /\ UNCHANGED inflight
    /\ UNCHANGED handlerVars
    /\ UNCHANGED valueVars
    /\ UNCHANGED <<parsed, lookup, repeat>>

\* The host invokes errorHandler(options) with the value raised for request
\* r and with that request's req, res and next.
ServeErrorHandler(r, options) ==
    /\ inflight[r] # NoValue
    /\ servedBy[r] = NoHandler
    /\ LET h   == errorHandler(options, nodeEnv)
           run == errorHandlerMiddleware(h, inflight[r], r)
       IN  /\ responses' = [responses EXCEPT ![r] = run.events]
           /\ servedBy' = [servedBy EXCEPT ![r] = h]
    /\ UNCHANGED inflight
    /\ UNCHANGED handlerVars
    /\ UNCHANGED valueVars
    /\ UNCHANGED <<parsed, lookup, repeat>>

\* The host invokes simpleErrorHandler() the same way.
ServeSimpleErrorHandler(r) ==
    /\ inflight[r] # NoValue
    /\ servedBy[r] = NoHandler
    /\ LET run == simpleErrorHandlerMiddleware(inflight[r], r)
       IN  /\ responses' = [responses EXCEPT ![r] = run.events]
           /\ servedBy' = [servedBy EXCEPT ![r] = SimpleHandler]
    /\ UNCHANGED inflight
    /\ UNCHANGED handlerVars
    /\ UNCHANGED valueVars
    /\ UNCHANGED <<parsed, lookup, repeat>>

\* Request r is over; its slot takes the next request.
Complete(r) ==
    /\ servedBy[r] # NoHandler
    /\ inflight' = [inflight EXCEPT ![r] = NoValue]
    /\ responses' = [responses EXCEPT ![r] = <<>>]
    /\ servedBy' = [servedBy EXCEPT ![r] = NoHandler]
    /\ UNCHANGED handlerVars
    /\ UNCHANGED valueVars
    /\ UNCHANGED <<parsed, lookup, repeat>>

NextConcurrent ==
    \/ \E r \in Requests, message \in ConcMessages, options \in ConcErrorOptions :
           RaiseFromFactoryFor(r, "notFound", message, options)
    \/ \E r \in Requests, v \in ConcOtherValues : RaiseOtherFor(r, v)
    \/ \E r \in Requests, options \in ConcHandlerOptions : ServeErrorHandler(r, options)
    \/ \E r \in Requests : ServeSimpleErrorHandler(r)
    \/ \E r \in Requests : Complete(r)

SpecConcurrent == Init /\ [][NextConcurrent]_vars

(***************************************************************************)
(* Hooks that raise: errorHandler configured with a logger or a transform  *)
(* that may raise when called.                                             *)
(***************************************************************************)
HookLoggers == {Fn("log"), Fn("raises")}

HookTransforms == {Fn("envelope"), Fn("raises")}

HookOptions ==
    {[logger |-> l] : l \in HookLoggers}
        \cup {[transform |-> t] : t \in HookTransforms}
        \cup {[logger |-> l, transform |-> t] : l \in HookLoggers, t \in HookTransforms}

NextHooks ==
    \/ \E options \in HookOptions : CreateErrorHandler(options)
    \/ \E message \in ConcMessages, options \in ConcErrorOptions :
           RaiseFromFactory("notFound", message, options)
    \/ \E v \in ConcOtherValues : RaiseOther(v)
    \/ InvokeErrorHandler

SpecHooks == Init /\ [][NextHooks]_vars

(***************************************************************************)
(* Observations on the invocation recorded in the state.                   *)
(***************************************************************************)
Calls(op) == SelectSeq(events, LAMBDA e : e.op = op)

StatusCodes == [i \in 1..Len(Calls("res.status")) |-> Calls("res.status")[i].code]

Bodies == [i \in 1..Len(Calls("res.json")) |-> Calls("res.json")[i].body]

Handled == outcome \in {"returned", "threw"}

ByErrorHandler == Handled /\ usedBy.kind = "errorHandler"

BySimpleHandler == Handled /\ usedBy.kind = "simpleErrorHandler"

Recognized == raised.class = "HttpError"

\* {status, message} plus code and details exactly when they are set.
ExpectedRecord(e) ==
    [k \in {"status", "message"}
             \cup {x \in {"code", "details"} : e.props[x] # Undefined} |-> e.props[k]]

InternalServerErrorBody ==
    [status |-> Num(500), message |-> Str("Internal Server Error")]

DetailedBody(v) ==
    [status |-> Num(500), message |-> Get(v, "message"), stack |-> Get(v, "stack")]

NotFoundExample ==
    [class |-> "HttpError",
     prim  |-> Undefined,
     props |-> [status  |-> Num(404),
                message |-> Str("User not found"),
                name    |-> Str("HttpError"),
                code    |-> Str("USER_NOT_FOUND"),
                details |-> Obj("{userId:'123'}"),
                stack   |-> Str("HttpError: at <anonymous>")]]

NotFoundExampleBody ==
    [status  |-> Num(404),
     message |-> Str("User not found"),
     code    |-> Str("USER_NOT_FOUND"),
     details |-> Obj("{userId:'123'}")]

(***************************************************************************)
(* C1: errorHandler without transform answers every HttpError e with       *)
(* status e.status and body e.toJSON(), that is {status, message} plus     *)
(* code and details exactly when they were set; the notFound example       *)
(* gives 404 and the documented body.                                      *)
(***************************************************************************)
C1_RecognizedResponse ==
    (ByErrorHandler /\ Recognized /\ usedBy.transform = Undefined) =>
        /\ StatusCodes = <<raised.props.status.n>>
        /\ Bodies = <<toJSON(raised)>>
        /\ Bodies = <<ExpectedRecord(raised)>>
        /\ raised = NotFoundExample =>
               /\ StatusCodes = <<404>>
               /\ Bodies = <<NotFoundExampleBody>>

C1_Witness ==
    /\ ByErrorHandler
    /\ usedBy.transform = Undefined
    /\ raised = NotFoundExample
    /\ StatusCodes = <<404>>
    /\ Bodies = <<NotFoundExampleBody>>

(***************************************************************************)
(* C2: with includeStack false, errorHandler answers every value that is   *)
(* not an HttpError with status 500 and the body                           *)
(* {status: 500, message: 'Internal Server Error'}, the same for all of    *)
(* them.                                                                   *)
(***************************************************************************)
C2_HiddenUnknownResponse ==
    (ByErrorHandler /\ ~Recognized /\ usedBy.includeStack = False) =>
        /\ outcome = "returned"
        /\ StatusCodes = <<500>>
        /\ Bodies = <<InternalServerErrorBody>>

C2_Witness ==
    /\ ByErrorHandler
    /\ usedBy.includeStack = False
    /\ raised = ForeignError
    /\ Bodies = <<InternalServerErrorBody>>

(***************************************************************************)
(* C3: with includeStack true, errorHandler answers every value that is    *)
(* not an HttpError with status 500 and the body                           *)
(* {status: 500, message: err.message, stack: err.stack}, without code or  *)
(* details.                                                                *)
(***************************************************************************)
C3_DetailedUnknownResponse ==
    (ByErrorHandler /\ ~Recognized /\ usedBy.includeStack = True) =>
        /\ StatusCodes = <<500>>
        /\ Bodies = <<DetailedBody(raised)>>
        /\ \A i \in DOMAIN Bodies : DOMAIN Bodies[i] \cap {"code", "details"} = {}

(***************************************************************************)
(* C4: every invocation of the errorHandler middleware, with any           *)
(* configuration and any raised value, calls res.status once and then      *)
(* res.json once, does not raise and never calls next.                     *)
(***************************************************************************)
C4_ExactlyOneResponse ==
    ByErrorHandler =>
        /\ outcome = "returned"
        /\ Len(Calls("res.status")) = 1
        /\ Len(Calls("res.json")) = 1
        /\ Calls("next") = <<>>
        /\ \A i, j \in DOMAIN events :
               (events[i].op = "res.status" /\ events[j].op = "res.json") => i < j

(***************************************************************************)
(* C5: a configured logger is called exactly once per invocation, with the *)
(* raised value itself and the request, before transform and before        *)
(* anything is written; without a logger nothing is logged.                *)
(***************************************************************************)
C5_LoggerFirst ==
    ByErrorHandler =>
        IF usedBy.logger # Undefined
        THEN /\ Calls("logger") = <<EvLogger(raised, reqId)>>
             /\ events[1].op = "logger"
             /\ \A i \in DOMAIN events :
                    events[i].op \in {"transform", "res.status", "res.json"} => i > 1
        ELSE Calls("logger") = <<>>

C5_Witness ==
    /\ ByErrorHandler
    /\ usedBy.logger = Fn("log")
    /\ usedBy.transform = Fn("envelope")
    /\ Recognized
    /\ [i \in DOMAIN events |-> events[i].op]
           = <<"logger", "transform", "res.status", "res.json">>
    /\ events[1].val = raised
    /\ events[1].req = reqId

(***************************************************************************)
(* C6: with transform configured, an HttpError e makes exactly one call    *)
(* transform(e), the body is that call's result (not e.toJSON()) and the   *)
(* status is e.status; for any other value transform is not called and the *)
(* body is the one of the unrecognized path.                               *)
(***************************************************************************)
C6_TransformOnlyForRecognized ==
    (ByErrorHandler /\ usedBy.transform # Undefined) =>
        IF Recognized
        THEN /\ Calls("transform") = <<EvTransform(raised)>>
             /\ Bodies = <<ApplyTransform(usedBy.transform, raised)>>
             /\ Bodies = <<[error      |-> raised.props.message,
                            statusCode |-> raised.props.status]>>
             /\ Bodies # <<ExpectedRecord(raised)>>
             /\ StatusCodes = <<raised.props.status.n>>
        ELSE /\ Calls("transform") = <<>>
             /\ StatusCodes = <<500>>
             /\ Bodies = IF usedBy.includeStack = False THEN <<InternalServerErrorBody>>
                         ELSE IF raised = NullValue THEN <<>>
                         ELSE <<DetailedBody(raised)>>

C6_Witness ==
    /\ ByErrorHandler
    /\ usedBy.transform = Fn("envelope")
    /\ raised = NotFoundExample
    /\ Bodies = <<[error |-> Str("User not found"), statusCode |-> Num(404)]>>

(***************************************************************************)
(* C7: simpleErrorHandler writes nothing for a value that is not an        *)
(* HttpError and calls next exactly once, with that same value.            *)
(***************************************************************************)
C7_SimpleForwardsUnknown ==
    (BySimpleHandler /\ ~Recognized) =>
        /\ outcome = "returned"
        /\ Calls("res.status") = <<>>
        /\ Calls("res.json") = <<>>
        /\ Calls("next") = <<EvNext(raised)>>

C7_Witness ==
    /\ BySimpleHandler
    /\ raised = PlainError
    /\ events = <<EvNext(PlainError)>>

(***************************************************************************)
(* C8: simpleErrorHandler answers every HttpError e with exactly one       *)
(* response, status e.status and body e.toJSON(), and does not call next;  *)
(* every invocation either writes one response or calls next once, never   *)
(* both and never neither.                                                 *)
(***************************************************************************)
C8_SimpleRespondsOrForwards ==
    BySimpleHandler =>
        /\ Recognized =>
               /\ StatusCodes = <<raised.props.status.n>>
               /\ Bodies = <<toJSON(raised)>>
               /\ Bodies = <<ExpectedRecord(raised)>>
               /\ Calls("next") = <<>>
        /\ LET wrote     == Len(Calls("res.status")) = 1 /\ Len(Calls("res.json")) = 1
               silent    == Calls("res.status") = <<>> /\ Calls("res.json") = <<>>
               forwarded == Len(Calls("next")) = 1
               kept      == Calls("next") = <<>>
           IN  (wrote /\ kept) \/ (silent /\ forwarded)

C8_Witness ==
    /\ BySimpleHandler
    /\ raised = NotFoundExample
    /\ events = <<EvStatus(404), EvJson(NotFoundExampleBody)>>

C10_IncludeStackDefault ==
    created.called =>
        LET o     == created.options
            given == /\ o # Undefined
                     /\ "includeStack" \in DOMAIN o
                     /\ o.includeStack # Undefined
        IN  handler.includeStack =
                IF given THEN o.includeStack
                ELSE IF created.env = Str("production") THEN False
                ELSE True

C10_Witness ==
    /\ created.called
    /\ created.options # Undefined
    /\ "includeStack" \in DOMAIN created.options
    /\ created.options.includeStack = Undefined
    /\ created.env = Str("production")
    /\ handler.includeStack = False

(***************************************************************************)
(* What the client receives.                                               *)
(***************************************************************************)
Received == [i \in 1..Len(Calls("res.json")) |-> JSONStringify(Calls("res.json")[i].body)]

HasStatusAndMessage ==
    /\ Len(Received) = 1
    /\ {"status", "message"} \subseteq DOMAIN Received[1]

C12_ProductionShape ==
    (ByErrorHandler /\ usedBy.includeStack = False /\ StatusCodes = <<500>>) =>
        Received = <<InternalServerErrorBody>>

(***************************************************************************)
(* C13: with includeStack true, the body errorHandler writes for a 500     *)
(* error that carries a code and details has the keys status, message,     *)
(* code, details and stack together.                                       *)
(***************************************************************************)
C13_DevelopmentShape ==
    (/\ ByErrorHandler
     /\ usedBy.includeStack = True
     /\ usedBy.transform = Undefined
     /\ StatusCodes = <<500>>
     /\ Get(raised, "code") # Undefined
     /\ Get(raised, "details") # Undefined) =>
        /\ Len(Received) = 1
        /\ {"status", "message", "code", "details", "stack"} \subseteq DOMAIN Received[1]

(***************************************************************************)
(* C14 as stated: with includeStack true, the body for every value that is *)
(* not an HttpError (also a string or a plain object) contains the         *)
(* original message and a present, non-empty stack.                        *)
(***************************************************************************)
C14_AlwaysMessageAndStack ==
    (ByErrorHandler /\ ~Recognized /\ usedBy.includeStack = True) =>
        /\ Len(Received) = 1
        /\ {"message", "stack"} \subseteq DOMAIN Received[1]
        /\ Received[1].message = Get(raised, "message")
        /\ Received[1].stack.t = "string"
        /\ Received[1].stack.s # ""

(***************************************************************************)
(* C14 as amended: with includeStack true, the body for a value that is    *)
(* not an HttpError and has a non-empty stack (an Error object) is         *)
(* {status: 500, message, stack} with its message and that stack; for a    *)
(* value without a stack (a string, a plain object, null) no stack key     *)
(* reaches the client.                                                     *)
(***************************************************************************)
C14_MessageAndStackWhenAvailable ==
    (ByErrorHandler /\ ~Recognized /\ usedBy.includeStack = True) =>
        LET stack == Get(raised, "stack")
        IN  IF stack.t = "string" /\ stack.s # ""
            THEN Received = <<[status  |-> Num(500),
                               message |-> Get(raised, "message"),
                               stack   |-> stack]>>
            ELSE \A i \in DOMAIN Received : "stack" \notin DOMAIN Received[i]

C14_Witness ==
    /\ ByErrorHandler
    /\ usedBy.includeStack = True
    /\ raised = PlainError
    /\ Received = <<[status  |-> Num(500),
                     message |-> Str("connect ECONNREFUSED"),
                     stack   |-> Str("Error: connect ECONNREFUSED at db.js:1")]>>

(***************************************************************************)
(* Observations on the last factory or constructor call.                   *)
(***************************************************************************)
ByFactory == call.op = "factory"

ByConstructor == call.op = "constructor"

NoMessageGiven == call.message \in {Undefined, Str("")}

\* The value of an options field, undefined when it was not given.
Supplied(key) ==
    IF call.options # Undefined /\ key \in DOMAIN call.options
    THEN call.options[key]
    ELSE Undefined

\* The documented reason phrase of a status, 'Unknown Error' outside the table.
ReasonOf(status) ==
    IF \E n \in DOMAIN StatusTable : StatusTable[n].status = status
    THEN Str(StatusTable[CHOOSE n \in DOMAIN StatusTable :
                             StatusTable[n].status = status].reason)
    ELSE Str("Unknown Error")

(***************************************************************************)
(* C15: every factory called without a message or with the empty message,  *)
(* with or without options, returns an HttpError with the table's status   *)
(* and the table's reason phrase for it.                                   *)
(***************************************************************************)
C15_FactoryDefaultMessage ==
    (ByFactory /\ NoMessageGiven) =>
        /\ result.class = "HttpError"
        /\ result.props.status = Num(StatusTable[call.name].status)
        /\ result.props.message = Str(StatusTable[call.name].reason)

C15_Witness ==
    /\ ByFactory
    /\ call.name = "notImplemented"
    /\ call.message = Str("")
    /\ call.options = [code |-> Str("")]
    /\ result.props.status = Num(501)
    /\ result.props.message = Str("Not Implemented")

(***************************************************************************)
(* C16: a factory called with a custom message returns an HttpError with   *)
(* exactly that message; its status is the factory's fixed status whatever *)
(* the message and options, and its code and details are the ones given    *)
(* in the options.                                                         *)
(***************************************************************************)
C16_FactoryCustomMessage ==
    ByFactory =>
        /\ result.props.status = Num(StatusTable[call.name].status)
        /\ result.props.code = Supplied("code")
        /\ result.props.details = Supplied("details")
        /\ ~NoMessageGiven => result.props.message = call.message

C16_Witness ==
    /\ ByFactory
    /\ call.name = "notFound"
    /\ call.message = Str("User not found")
    /\ result = NotFoundExample

(***************************************************************************)
(* C17 as stated: obsidian has exactly the 62 names of the status table,   *)
(* each bound to the table's status, no two to the same status, and a      *)
(* factory's result equals new HttpError(status, message, options) with    *)
(* the same message and options.                                           *)
(***************************************************************************)
NamespaceMatchesTable ==
    /\ DOMAIN obsidian = DOMAIN StatusTable
    /\ Cardinality(DOMAIN obsidian) = 62
    /\ obsidian["continue"] = 100
    /\ \A n \in DOMAIN obsidian : obsidian[n] = StatusTable[n].status
    /\ \A n1, n2 \in DOMAIN obsidian : obsidian[n1] = obsidian[n2] => n1 = n2

\* new HttpError(status, message, options), written out.
Constructed(status, message, options) ==
    [class |-> "HttpError",
     prim  |-> Undefined,
     props |-> [status  |-> Num(status),
                message |-> IF message = Undefined THEN Str("") ELSE message,
                name    |-> Str("HttpError"),
                code    |-> IF options # Undefined /\ "code" \in DOMAIN options
                            THEN options.code ELSE Undefined,
                details |-> IF options # Undefined /\ "details" \in DOMAIN options
                            THEN options.details ELSE Undefined,
                stack   |-> Str("HttpError: at <anonymous>")]]

C17_FactoryEqualsConstruction ==
    /\ NamespaceMatchesTable
    /\ ByFactory =>
           result = Constructed(StatusTable[call.name].status, call.message, call.options)

(***************************************************************************)
(* C17 as amended: the same namespace, and a factory's result equals       *)
(* new HttpError(status, m, options) where m is the given message when it  *)
(* is not empty and the status's reason phrase otherwise.                  *)
(***************************************************************************)
C17_FactoryEqualsConstructionWithDefault ==
    /\ NamespaceMatchesTable
    /\ ByFactory =>
           result = Constructed(StatusTable[call.name].status,
                                IF NoMessageGiven
                                THEN Str(StatusTable[call.name].reason)
                                ELSE call.message,
                                call.options)

C17_Witness ==
    /\ ByFactory
    /\ call.name = "continue"
    /\ call.message = Undefined
    /\ call.options = [details |-> Null]
    /\ result = Constructed(100, Str("Continue"), [details |-> Null])

(***************************************************************************)
(* C18 as stated: the HttpError constructor called with an omitted or      *)
(* empty message yields the registry's reason phrase for the status, and   *)
(* 'Unknown Error' for a status outside the table.                         *)
(***************************************************************************)
C18_ConstructorDefaultsMessage ==
    (ByConstructor /\ NoMessageGiven) => result.props.message = ReasonOf(call.status)

(***************************************************************************)
(* C18 as amended: the HttpError constructor keeps the message it is       *)
(* given, so an empty message stays empty and an omitted one reads as the  *)
(* empty string; the reason phrase is substituted by the factories only.   *)
(***************************************************************************)
C18_ConstructorKeepsMessage ==
    /\ ByConstructor =>
           result.props.message = IF call.message = Undefined THEN Str("") ELSE call.message
    /\ (ByFactory /\ NoMessageGiven) => result.props.message = ReasonOf(call.status)

C18_Witness ==
    /\ ByConstructor
    /\ call.status = 404
    /\ call.message = Str("")
    /\ result.props.message = Str("")
    /\ result.props.status = Num(404)

(***************************************************************************)
(* C19: the record of toJSON has the code key exactly when a code was      *)
(* supplied and the details key exactly when details were supplied, by     *)
(* presence and not truthiness: an empty code and details {}, null, 0 or   *)
(* false are included; without options neither key exists.                 *)
(***************************************************************************)
C19_FieldPresence ==
    json # NoBody =>
        /\ \A key \in {"code", "details"} :
               /\ key \in DOMAIN json <=> Supplied(key) # Undefined
               /\ key \in DOMAIN json => json[key] = Supplied(key)
        /\ call.options \in {Undefined, NoProps} => DOMAIN json = {"status", "message"}
        /\ call.options = [code |-> Str("")] => json.code = Str("")
        /\ call.options = [details |-> Obj("{}")] => json.details = Obj("{}")
        /\ call.options = [details |-> Null] => json.details = Null
        /\ call.options = [details |-> Num(0)] => json.details = Num(0)
        /\ call.options = [details |-> False] => json.details = False

C19_Witness ==
    /\ json # NoBody
    /\ call.options = [details |-> Null]
    /\ DOMAIN json = {"status", "message", "details"}
    /\ json.details = Null

(***************************************************************************)
(* C20: for every HttpError, after any sequence of operations, the keys of *)
(* toJSON() include status and message and are among status, message,      *)
(* code, details (never stack or name), and JSON.stringify of the error    *)
(* itself gives that same record.                                          *)
(***************************************************************************)
C20_RecordKeys ==
    /\ json # NoBody =>
           /\ {"status", "message"} \subseteq DOMAIN json
           /\ DOMAIN json \subseteq {"status", "message", "code", "details"}
           /\ json.status = result.props.status
           /\ json.message = result.props.message
    /\ text # NoBody =>
           /\ text = JSONStringify(ExpectedRecord(result))
           /\ DOMAIN text \cap {"stack", "name"} = {}
           /\ json # NoBody => text = JSONStringify(json)

C20_Witness ==
    /\ json # NoBody
    /\ text # NoBody
    /\ DOMAIN json = {"status", "message", "code", "details"}
    /\ text = json

\* A details payload made of JSON data only: strings, finite numbers,
\* booleans, null and objects of these.
RECURSIVE JSONData(_)
JSONData(v) ==
    \/ v.t \in {"string", "boolean", "null", "object"}
    \/ v.t = "number" /\ v.s = ""
    \/ v.t = "struct" /\ \A k \in DOMAIN v.f : JSONData(v.f[k])

\* C21 as stated: for any HttpError, with any details payload,
\* JSON.parse(JSON.stringify(e.toJSON())) equals e.toJSON().
C21_RoundTripAnyDetails ==
    parsed # NoBody => parsed = json

\* C21 amended: the round trip gives back the record of every HttpError whose
\* details payload is absent or made of JSON data only.
C21_RoundTripJSONData ==
    (/\ parsed # NoBody
     /\ "details" \in DOMAIN json => JSONData(json["details"]))
        => parsed = json

C21_Witness ==
    /\ parsed # NoBody
    /\ "details" \in DOMAIN json
    /\ json["details"] = Struct([userId |-> Str("123"), attempts |-> Num(3)])
    /\ "code" \notin DOMAIN json
    /\ parsed = json

\* C22: getDefaultMessage answers every status: the reason phrase of a status
\* of the table, 'Unknown Error' for any other status (999, 600).
C22_GetDefaultMessageTotal ==
    lookup # NoLookup =>
        /\ lookup.phrase.t = "string"
        /\ lookup.phrase = ReasonOf(lookup.status)
        /\ lookup.status \notin DOMAIN HttpStatusMessage
               => lookup.phrase = Str("Unknown Error")

C22_Witness ==
    /\ lookup.status = 999
    /\ lookup.phrase = Str("Unknown Error")

\* The raised value is the HttpError the recorded factory or constructor call
\* returned.
RaisedFromLibrary == call.op \in {"factory", "constructor"} /\ raised = result

\* C23: the constructor accepts every status, also one outside the registry
\* (999), and keeps it as given; errorHandler and simpleErrorHandler then
\* answer with exactly that status.
C23_AnyStatusKept ==
    ByConstructor =>
        /\ InstanceOfHttpError(result)
        /\ result.props.status = Num(call.status)
        /\ (Handled /\ raised = result) => StatusCodes = <<call.status>>

C23_Witness ==
    /\ ByConstructor
    /\ call.status = 999
    /\ raised = result
    /\ BySimpleHandler
    /\ StatusCodes = <<999>>

\* C25: toJSON, errorHandler, simpleErrorHandler and getDefaultMessage leave
\* the HttpError as it was: its status, message, code and details are the
\* same after the operation as before.
C25_ErrorUnchanged ==
    [][(\/ CallToJSON
        \/ InvokeErrorHandler
        \/ InvokeSimpleErrorHandler
        \/ \E status \in LookupStatuses : CallGetDefaultMessage(status))
            => /\ result' = result
               /\ raised' = raised]_vars

C25_Witness ==
    /\ RaisedFromLibrary
    /\ ByErrorHandler
    /\ json # NoBody
    /\ lookup # NoLookup
    /\ result = Constructed(call.status, call.message, call.options)
    /\ result.props.details = Obj("{userId:'123'}")

\* C29: a value is recognized because it is an HttpError instance: every
\* value the constructor or a factory returned is answered with its own
\* status by both middlewares, also after being thrown and caught; every
\* other value, a plain Error or an object shaped like an HttpError
\* included, gets status 500 from errorHandler and is forwarded by
\* simpleErrorHandler.
C29_RecognitionByInstance ==
    Handled =>
        IF RaisedFromLibrary
        THEN /\ StatusCodes = <<result.props.status.n>>
             /\ Len(Bodies) = 1
             /\ Calls("next") = <<>>
        ELSE /\ raised \in OtherValues
             /\ ByErrorHandler =>
                    /\ StatusCodes = <<500>>
                    /\ Calls("transform") = <<>>
                    /\ Calls("next") = <<>>
             /\ BySimpleHandler => events = <<EvNext(raised)>>

C29_Witness ==
    /\ ByErrorHandler
    /\ raised = LookalikeObject
    /\ StatusCodes = <<500>>
    /\ Calls("transform") = <<>>

\* The res.status and res.json calls middleware h makes for raised value v,
\* from h's configuration and v alone.
ExpectedResponse(h, v) ==
    IF v.class = "HttpError"
    THEN <<EvStatus(v.props.status.n),
           EvJson(IF h.kind = "errorHandler" /\ h.transform # Undefined
                  THEN ApplyTransform(h.transform, v)
                  ELSE ExpectedRecord(v))>>
    ELSE IF h.kind = "simpleErrorHandler" THEN <<>>
    ELSE IF h.includeStack = False
         THEN <<EvStatus(500), EvJson(InternalServerErrorBody)>>
    ELSE IF v.class = "Null" THEN <<EvStatus(500)>>
    ELSE <<EvStatus(500), EvJson(DetailedBody(v))>>

ResponseCalls(r) ==
    SelectSeq(responses[r], LAMBDA e : e.op \in {"res.status", "res.json"})

\* C24: with several requests in flight and their invocations in any order,
\* through errorHandler middlewares of different configurations and
\* simpleErrorHandler, the response of each request is the one its own
\* raised value and the configuration of its middleware give, and it is
\* made on that request's own req, res and next.
C24_InvocationsIndependent ==
    \A r \in Requests :
        IF servedBy[r] = NoHandler
        THEN responses[r] = <<>>
        ELSE /\ ResponseCalls(r) = ExpectedResponse(servedBy[r], inflight[r])
             /\ \A i \in 1..Len(responses[r]) :
                    /\ responses[r][i].op = "logger" =>
                           /\ responses[r][i].req = r
                           /\ responses[r][i].val = inflight[r]
                    /\ responses[r][i].op \in {"next", "transform"} =>
                           responses[r][i].val = inflight[r]

C24_Witness ==
    /\ servedBy[1].kind = "errorHandler"
    /\ servedBy[1].includeStack = False
    /\ inflight[1] = PlainError
    /\ ResponseCalls(1) = <<EvStatus(500), EvJson(InternalServerErrorBody)>>
    /\ servedBy[2] = SimpleHandler
    /\ inflight[2] = NotFoundExample
    /\ ResponseCalls(2) = <<EvStatus(404), EvJson(NotFoundExampleBody)>>

\* toJSON was called at least twice on the error.
CalledTwice == repeat.first # NoBody /\ repeat.second # NoBody

\* C26 as stated: any two toJSON calls on one HttpError return equal records,
\* also when the caller changed top-level keys or the contents of details of
\* the record returned first.
C26_RepeatableAfterAnyChange ==
    CalledTwice => repeat.first = repeat.second

\* C26 amended: two toJSON calls on one HttpError return equal records when
\* the caller did not write into the details object in between, whatever it
\* did to the top-level keys of the record returned first; in every case the
\* two records have the same keys and the same status, message and code.
C26_RepeatableUnlessDetailsWritten ==
    CalledTwice =>
        /\ ~repeat.touched => repeat.first = repeat.second
        /\ DOMAIN repeat.first = DOMAIN repeat.second
        /\ \A k \in DOMAIN repeat.first \ {"details"} :
               repeat.first[k] = repeat.second[k]

C26_Witness ==
    /\ CalledTwice
    /\ repeat.between
    /\ ~repeat.touched
    /\ repeat.first = repeat.second
    /\ repeat.second["details"] = Struct([userId |-> Str("123")])

\* The errorHandler call that made the middleware in use gave no includeStack.
DefaultedStack ==
    /\ created.called
    /\ usedBy = handler
    /\ OptGet(created.options, "includeStack") = Undefined

\* C27: the includeStack default is fixed by NODE_ENV as it was when
\* errorHandler(options) was called: a middleware made under 'production'
\* hides the error of every value that is not an HttpError, one made under
\* any other NODE_ENV does not, whatever NODE_ENV is when the request comes.
C27_DefaultResolvedAtCreation ==
    (ByErrorHandler /\ ~Recognized /\ DefaultedStack) =>
        /\ StatusCodes = <<500>>
        /\ (created.env = Str("production")) <=> (Bodies = <<InternalServerErrorBody>>)
        /\ (created.env # Str("production") /\ CanRead(raised))
               => Bodies = <<DetailedBody(raised)>>

C27_Witness ==
    /\ ByErrorHandler
    /\ DefaultedStack
    /\ created.env = Str("production")
    /\ nodeEnv = Str("development")
    /\ raised = PlainError
    /\ Bodies = <<InternalServerErrorBody>>

LoggerRaises == ByErrorHandler /\ Raises(usedBy.logger)

TransformRaises == ByErrorHandler /\ Recognized /\ Raises(usedBy.transform)

\* C28: when the logger raises, or transform raises for an HttpError, the
\* errorHandler middleware raises to its caller without having called
\* res.status or res.json; when the logger raises, transform is not called.
C28_NothingWrittenOnHookFailure ==
    (LoggerRaises \/ TransformRaises) =>
        /\ outcome = "threw"
        /\ StatusCodes = <<>>
        /\ Bodies = <<>>
        /\ Calls("next") = <<>>
        /\ LoggerRaises => events = <<EvLogger(raised, reqId)>>
        /\ ~LoggerRaises => Calls("transform") = <<EvTransform(raised)>>

C28_Witness ==
    /\ TransformRaises
    /\ usedBy.logger = Fn("log")
    /\ events = <<EvLogger(raised, reqId), EvTransform(raised)>>
    /\ outcome = "threw"

\* The res.status and res.json calls among a sequence of calls.
Written(calls) == SelectSeq(calls, LAMBDA e : e.op \in {"res.status", "res.json"})

\* The errorHandler configurations without transform.
PlainConfigurations ==
    {[kind |-> "errorHandler", includeStack |-> s, logger |-> l, transform |-> Undefined] :
        s \in {True, False}, l \in {Undefined, Fn("log")}}

\* C30: for an HttpError, errorHandler without transform (any includeStack,
\* with or without logger) and simpleErrorHandler write the same status and
\* the same body; for any other value errorHandler writes a 500 response
\* (status and body) and simpleErrorHandler forwards the value to next.
C30_TranslatorsAgree ==
    Handled =>
        IF Recognized
        THEN /\ (ByErrorHandler /\ usedBy.transform = Undefined) =>
                    Written(events) = simpleErrorHandlerMiddleware(raised, reqId).events
             /\ BySimpleHandler =>
                    \A h \in PlainConfigurations :
                        Written(errorHandlerMiddleware(h, raised, reqId).events) = events
        ELSE /\ ByErrorHandler =>
                    /\ outcome = "returned"
                    /\ StatusCodes = <<500>>
                    /\ Len(Bodies) = 1
                    /\ Calls("next") = <<>>
             /\ BySimpleHandler =>
                    /\ events = <<EvNext(raised)>>
                    /\ outcome = "returned"

====
